---- MODULE Spec2Model ----
(* A model of boomerang.py: one call of create_boomerang, from argument      *)
(* validation through filter-graph assembly and encoder selection to the     *)
(* hand-over to the media engine.                                            *)
(*                                                                           *)
(* Numbers.  start_time, duration and fade_duration are finite numbers of    *)
(* ticks (one tick is any fixed fraction of a second; the code only compares *)
(* and subtracts them).  speed is a finite rational num/den with den > 0.    *)
(* crf is an integer.  Non-finite floats (nan, inf) are outside the model.   *)
EXTENDS Integers, Sequences, FiniteSets, TLC

\* ---------------------------------------------------------------- bounds
MaxTime == 3
MaxSpeedNum == 2
MaxSpeedDen == 2

TimeValues == (-1)..MaxTime
SpeedValues == [num : (-1)..MaxSpeedNum, den : 1..MaxSpeedDen]
CrfValues == {-1, 0, 23, 51, 52}
Presets == {"medium"}
Systems == {"Darwin", "Windows", "Linux", "FreeBSD"}

\* What running nvidia-smi does on this host: it returns with status 0, it
\* returns with another status, or subprocess.run raises.
ProbeOutcomes ==
  {"returncode0", "returncode1", "FileNotFoundError", "TimeoutExpired", "PermissionError"}

\* What output_stream.run does: it returns, or it raises ffmpeg.Error.
EngineOutcomes == {"ok", "ffmpeg.Error"}

\* ------------------------------------------------------- program constants
HW_ACCEL_CODECS ==
  [nvidia |-> "h264_nvenc", apple |-> "h264_videotoolbox", intel |-> "h264_qsv"]

NoError == ""
NegativeStartTime == "Start time cannot be negative"
NonPositiveDuration == "Duration must be positive"
NonPositiveSpeed == "Speed must be positive"
NegativeFadeDuration == "Fade duration cannot be negative"
FadeExceedsDuration == "Fade duration must be less than total duration"
CrfOutOfRange == "CRF must be between 0 and 51"

\* ------------------------------------------------------------------ state
VARIABLES
  req,          \* the arguments of create_boomerang
  system,       \* platform.system()
  probeEnv,     \* what nvidia-smi does on this host
  pc,           \* position in create_boomerang
  raised,       \* message of the ValueError raised by validation, or NoError
  nodes,        \* the filter graph: node i is nodes[i], inputs are smaller ids
  final_video,  \* id of the node bound to final_video, 0 before it is bound
  final_audio,  \* id of the node bound to final_audio, 0 when there is none
  output_args,  \* ids of the streams handed to ffmpeg.output
  kwargs,       \* the output options
  probeCount,   \* number of subprocess.run(['nvidia-smi']) calls made
  engineRuns,   \* number of output_stream.run calls made
  log           \* encoder messages printed

vars ==
  <<req, system, probeEnv, pc, raised, nodes, final_video, final_audio,
    output_args, kwargs, probeCount, engineRuns, log>>

\* ------------------------------------------------------------- arithmetic
\* speed compared with a whole number n: num/den ? n, den > 0.
SpeedLeqZero(s) == s.num <= 0
SpeedIsOne(s) == s.num = s.den

\* 1/speed as a fraction.
Reciprocal(s) == [num |-> s.den, den |-> s.num]

\* ------------------------------------------------------------- validation
\* ValidationError with the upper crf bound excluded.
ValidationError_CrfOffByOne(r) ==
  IF r.start_time < 0 THEN NegativeStartTime
  ELSE IF r.duration <= 0 THEN NonPositiveDuration
  ELSE IF SpeedLeqZero(r.speed) THEN NonPositiveSpeed
  ELSE IF r.fade_duration < 0 THEN NegativeFadeDuration
  ELSE IF r.fade_duration >= r.duration THEN FadeExceedsDuration
  ELSE IF r.crf < 0 \/ r.crf >= 51 THEN CrfOutOfRange
  ELSE NoError

\* ValidationError letting a fade as long as the segment through.
ValidationError_FadeEqualAllowed(r) ==
  IF r.start_time < 0 THEN NegativeStartTime
  ELSE IF r.duration <= 0 THEN NonPositiveDuration
  ELSE IF SpeedLeqZero(r.speed) THEN NonPositiveSpeed
  ELSE IF r.fade_duration < 0 THEN NegativeFadeDuration
  ELSE IF r.fade_duration > r.duration THEN FadeExceedsDuration
  ELSE IF r.crf < 0 \/ r.crf > 51 THEN CrfOutOfRange
  ELSE NoError

\* The first failing check of lines 48-59, or NoError.
ValidationError(r) ==
  IF r.start_time < 0 THEN NegativeStartTime
  ELSE IF r.duration <= 0 THEN NonPositiveDuration
  ELSE IF SpeedLeqZero(r.speed) THEN NonPositiveSpeed
  ELSE IF r.fade_duration < 0 THEN NegativeFadeDuration
  ELSE IF r.fade_duration >= r.duration THEN FadeExceedsDuration
  ELSE IF r.crf < 0 \/ r.crf > 51 THEN CrfOutOfRange
  ELSE NoError

Init ==
  /\ req \in [start_time : {-1, 0, 1}, duration : TimeValues, speed : SpeedValues,
              crf : CrfValues, preset : Presets, fade_duration : TimeValues,
              include_audio : BOOLEAN, use_gpu : BOOLEAN]
  /\ system \in Systems
  /\ probeEnv \in ProbeOutcomes
  /\ pc = "validate"
  /\ raised = NoError
  /\ nodes = <<>>
  /\ final_video = 0
  /\ final_audio = 0
  /\ output_args = <<>>
  /\ kwargs = <<>>
  /\ probeCount = 0
  /\ engineRuns = 0
  /\ log = {}

\* Lines 47-59: the checks run before the try block, so a ValueError leaves
\* create_boomerang at once.
Validate ==
  /\ pc = "validate"
  /\ raised' = ValidationError(req)
  /\ pc' = IF ValidationError(req) = NoError THEN "stream_setup" ELSE "raised"
  /\ UNCHANGED <<req, system, probeEnv, nodes, final_video, final_audio,
                 output_args, kwargs, probeCount, engineRuns, log>>

\* ------------------------------------------------------------ filter graph
\* A node of the graph under construction.  stream is "v" for a video filter,
\* "a" for an audio filter, "av" for the input; inputs are ids of earlier nodes.
Node(kind, stream, inputs, args) ==
  [kind |-> kind, stream |-> stream, inputs |-> inputs, args |-> args]

\* Line 80: ffmpeg.input(input_file, ss=start_time, t=duration).
InputNode(r) == Node("input", "av", <<>>, [ss |-> r.start_time, t |-> r.duration])

\* JoinVideo crossfading also when the fade is zero.
JoinVideo_FadeZeroCrossfades(forward, reverse, duration, fade_duration) ==
  IF fade_duration >= 0 /\ duration > fade_duration
  THEN Node("xfade", "v", <<forward, reverse>>,
            [transition |-> "fade", duration |-> fade_duration,
             offset |-> duration - fade_duration])
  ELSE Node("concat", "v", <<forward, reverse>>, [v |-> 1, a |-> 0])

\* Lines 91-100: the node joining the forward and the reversed video.
JoinVideo(forward, reverse, duration, fade_duration) ==
  IF fade_duration > 0 /\ duration > fade_duration
  THEN Node("xfade", "v", <<forward, reverse>>,
            [transition |-> "fade", duration |-> fade_duration,
             offset |-> duration - fade_duration])
  ELSE Node("concat", "v", <<forward, reverse>>, [v |-> 1, a |-> 0])

\* SetptsFactor without the inversion.
SetptsFactor_NotInverted(speed) == speed

\* Line 103: the factor of the setpts expression, 1/speed.
SetptsFactor(speed) == Reciprocal(speed)

\* Line 103: which node the setpts filter is applied to.
SetptsInput(forward, reverse, joined) == joined

\* NeedsAtempo adding the filter at every speed.
NeedsAtempo_Always(speed) == TRUE

\* Line 128: whether an atempo filter is added.
NeedsAtempo(speed) == ~SpeedIsOne(speed)

\* Line 122: the node joining the forward and the reversed audio.
JoinAudio(forward, reverse, duration, fade_duration) ==
  Node("concat", "a", <<forward, reverse>>, [v |-> 0, a |-> 1])

\* Lines 78-81: the input, trimmed to the segment; its video is the forward
\* branch.
StreamSetup ==
  /\ pc = "stream_setup"
  /\ nodes' = <<InputNode(req)>>
  /\ pc' = "video"
  /\ UNCHANGED <<req, system, probeEnv, raised, final_video, final_audio,
                 output_args, kwargs, probeCount, engineRuns, log>>

\* Lines 83-103: reverse, join, then setpts on the result.
VideoProcessing ==
  /\ pc = "video"
  /\ LET forward == 1
         reverse == Len(nodes) + 1
         joined == Len(nodes) + 2
         g1 == Append(nodes, Node("reverse", "v", <<forward>>, <<>>))
         g2 == Append(g1, JoinVideo(forward, reverse, req.duration, req.fade_duration))
         g3 == Append(g2, Node("setpts", "v", <<SetptsInput(forward, reverse, joined)>>,
                               [factor |-> SetptsFactor(req.speed)]))
     IN /\ nodes' = g3
        /\ final_video' = Len(g3)
  /\ pc' = "args"
  /\ UNCHANGED <<req, system, probeEnv, raised, final_audio, output_args, kwargs,
                 probeCount, engineRuns, log>>

\* Lines 105-114: the output streams and the fixed output options.
ArgumentSetup ==
  /\ pc = "args"
  /\ output_args' = <<final_video>>
  /\ kwargs' = [preset |-> req.preset, crf |-> req.crf, pix_fmt |-> "yuv420p"]
  /\ pc' = "audio"
  /\ UNCHANGED <<req, system, probeEnv, raised, nodes, final_video, final_audio,
                 probeCount, engineRuns, log>>

\* Lines 116-137: the audio chain, appended to the output streams.
AudioInclude ==
  /\ pc = "audio"
  /\ req.include_audio
  /\ LET forward == 1
         reverse == Len(nodes) + 1
         joined == Len(nodes) + 2
         g1 == Append(nodes, Node("areverse", "a", <<forward>>, <<>>))
         g2 == Append(g1, JoinAudio(forward, reverse, req.duration, req.fade_duration))
         g3 == IF NeedsAtempo(req.speed)
               THEN Append(g2, Node("atempo", "a", <<joined>>, [tempo |-> req.speed]))
               ELSE g2
     IN /\ nodes' = g3
        /\ final_audio' = Len(g3)
        /\ output_args' = Append(output_args, Len(g3))
  /\ pc' = "hw_accel"
  /\ UNCHANGED <<req, system, probeEnv, raised, final_video, kwargs,
                 probeCount, engineRuns, log>>

\* Lines 138-139: no audio chain, the output option an discards the track.
AudioDiscard ==
  /\ pc = "audio"
  /\ ~req.include_audio
  /\ kwargs' = kwargs @@ [an |-> "None"]
  /\ pc' = "hw_accel"
  /\ UNCHANGED <<req, system, probeEnv, raised, nodes, final_video, final_audio,
                 output_args, probeCount, engineRuns, log>>

\* ------------------------------------------------------- encoder selection
\* EncoderBranch probing on macOS too.
EncoderBranch_DarwinProbes(use_gpu, sys) ==
  IF ~use_gpu THEN "cpu"
  ELSE IF sys = "Darwin" \/ sys = "Windows" \/ sys = "Linux" THEN "probe"
  ELSE "none"

\* EncoderBranch ignoring use_gpu.
EncoderBranch_IgnoresUseGpu(use_gpu, sys) ==
  IF sys = "Darwin" THEN "apple"
  ELSE IF sys = "Windows" \/ sys = "Linux" THEN "probe"
  ELSE "none"

\* Lines 143-165: the branch of the hardware acceleration logic that is taken.
EncoderBranch(use_gpu, sys) ==
  IF ~use_gpu THEN "cpu"
  ELSE IF sys = "Darwin" THEN "apple"
  ELSE IF sys = "Windows" \/ sys = "Linux" THEN "probe"
  ELSE "none"

\* Lines 162 and 177: the exceptions of subprocess.run that the probe catches.
ProbeCaught(outcome) == outcome \in {"FileNotFoundError", "TimeoutExpired"}

\* subprocess.run returned a CompletedProcess rather than raising.
ProbeReturned(outcome) == outcome \in {"returncode0", "returncode1"}

\* Lines 155-163 and 170-178: codec_to_use after a probe that returned or
\* raised a caught exception.
ProbeCodec(outcome) ==
  IF ProbeReturned(outcome) /\ outcome = "returncode0"
  THEN HW_ACCEL_CODECS.nvidia
  ELSE HW_ACCEL_CODECS.intel

\* Lines 157, 161, 164 and 172, 176, 179: the message printed after the probe.
ProbeMessage(outcome) ==
  IF ~ProbeReturned(outcome) THEN "Could not detect GPU, attempting Intel QSV."
  ELSE IF outcome = "returncode0" THEN "Detected NVIDIA GPU, using NVENC."
  ELSE "No NVIDIA GPU detected, attempting Intel QSV."

\* Lines 186-187: no hardware acceleration requested.
EncoderCpu ==
  /\ pc = "hw_accel"
  /\ EncoderBranch(req.use_gpu, system) = "cpu"
  /\ kwargs' = kwargs @@ [vcodec |-> "libx264"]
  /\ pc' = "execute"
  /\ UNCHANGED <<req, system, probeEnv, raised, nodes, final_video, final_audio,
                 output_args, probeCount, engineRuns, log>>

\* Lines 147-149 and 181-182: macOS.
EncoderDarwin ==
  /\ pc = "hw_accel"
  /\ EncoderBranch(req.use_gpu, system) = "apple"
  /\ kwargs' = kwargs @@ [vcodec |-> HW_ACCEL_CODECS.apple]
  /\ log' = log \cup {"Detected macOS, attempting to use VideoToolbox."}
  /\ pc' = "execute"
  /\ UNCHANGED <<req, system, probeEnv, raised, nodes, final_video, final_audio,
                 output_args, probeCount, engineRuns>>

\* Lines 150-179 and 181-182: Windows and Linux run nvidia-smi once.  An
\* exception other than the two caught ones leaves the try block for the
\* handler of lines 204-206, which exits with status 1.
EncoderProbe ==
  /\ pc = "hw_accel"
  /\ EncoderBranch(req.use_gpu, system) = "probe"
  /\ probeCount' = probeCount + 1
  /\ IF ProbeReturned(probeEnv) \/ ProbeCaught(probeEnv)
     THEN /\ kwargs' = kwargs @@ [vcodec |-> ProbeCodec(probeEnv)]
          /\ log' = log \cup {ProbeMessage(probeEnv)}
          /\ pc' = "execute"
     ELSE /\ log' = log \cup {"An unexpected error occurred"}
          /\ pc' = "exit1"
          /\ UNCHANGED kwargs
  /\ UNCHANGED <<req, system, probeEnv, raised, nodes, final_video, final_audio,
                 output_args, engineRuns>>

\* Lines 145 and 181-185: any other system leaves codec_to_use None.
EncoderUnknown ==
  /\ pc = "hw_accel"
  /\ EncoderBranch(req.use_gpu, system) = "none"
  /\ kwargs' = kwargs @@ [vcodec |-> "libx264"]
  /\ log' = log \cup
       {"Warning: Could not determine a suitable GPU encoder, falling back to CPU."}
  /\ pc' = "execute"
  /\ UNCHANGED <<req, system, probeEnv, raised, nodes, final_video, final_audio,
                 output_args, probeCount, engineRuns>>

\* Lines 189-200: the plan is handed to the media engine; ffmpeg.Error exits
\* with status 1.
Execute ==
  /\ pc = "execute"
  /\ engineRuns' = engineRuns + 1
  /\ \E outcome \in EngineOutcomes :
       pc' = IF outcome = "ok" THEN "done" ELSE "exit1"
  /\ UNCHANGED <<req, system, probeEnv, raised, nodes, final_video, final_audio,
                 output_args, kwargs, probeCount, log>>

Next ==
  \/ Validate
  \/ StreamSetup
  \/ VideoProcessing
  \/ ArgumentSetup
  \/ AudioInclude
  \/ AudioDiscard
  \/ EncoderCpu
  \/ EncoderDarwin
  \/ EncoderProbe
  \/ EncoderUnknown
  \/ Execute

Spec == Init /\ [][Next]_vars

\* ------------------------------------------------------------- properties
\* Positions at which the video chain, the whole plan, the codec are settled.
VideoBuilt == pc \in {"args", "audio", "hw_accel", "execute", "done", "exit1"}
PlanBuilt == pc \in {"hw_accel", "execute", "done", "exit1"}
EncoderLeft == pc \in {"execute", "done", "exit1"}

Ids(kind, stream) ==
  {i \in 1..Len(nodes) : nodes[i].kind = kind /\ nodes[i].stream = stream}
StreamIds(stream) == {i \in 1..Len(nodes) : nodes[i].stream = stream}
HasCodec(c) == "vcodec" \in DOMAIN kwargs /\ kwargs.vcodec = c

\* The six conditions of the validator in their listed order, each with the
\* error reported when it fails.
Conditions(r) ==
  << <<r.start_time >= 0, NegativeStartTime>>,
     <<r.duration > 0, NonPositiveDuration>>,
     <<r.speed.num > 0, NonPositiveSpeed>>,
     <<r.fade_duration >= 0, NegativeFadeDuration>>,
     <<r.fade_duration < r.duration, FadeExceedsDuration>>,
     <<0 <= r.crf /\ r.crf <= 51, CrfOutOfRange>> >>
AllHold(r) == \A i \in 1..6 : Conditions(r)[i][1]
FirstFailing(r) ==
  LET i == CHOOSE k \in 1..6 :
             /\ ~Conditions(r)[k][1]
             /\ \A j \in 1..(k - 1) : Conditions(r)[j][1]
  IN Conditions(r)[i][2]

\* C1: once validation has run, the request is accepted exactly when all six
\* conditions hold, and a rejected request carries the error of the first
\* failing condition in the listed order.
C1_ValidationFirstFailure ==
  pc # "validate" =>
    /\ (pc # "raised") <=> AllHold(req)
    /\ (raised = NoError) <=> AllHold(req)
    /\ ~AllHold(req) => raised = FirstFailing(req)

\* A request failing the speed check and the crf check is rejected for speed.
C1_Witness ==
  /\ pc = "raised"
  /\ req.start_time >= 0 /\ req.duration > 0
  /\ req.speed.num <= 0 /\ req.crf = 52
  /\ raised = NonPositiveSpeed

\* C2 as stated: every request with fade_duration >= duration is rejected with
\* FadeExceedsDuration, whatever the other arguments, and nothing is built,
\* probed or run.
C2_AsStated ==
  (pc # "validate" /\ req.fade_duration >= req.duration) =>
    /\ raised = FadeExceedsDuration
    /\ nodes = <<>> /\ probeCount = 0 /\ engineRuns = 0

\* C2 amended: every request with fade_duration >= duration is rejected, with
\* FadeExceedsDuration when the four earlier checks pass and with the error of
\* the first failing earlier check otherwise; nothing is built, probed or run.
C2_FadeRejectedBeforeGraph ==
  (pc # "validate" /\ req.fade_duration >= req.duration) =>
    /\ pc = "raised"
    /\ raised = FirstFailing(req)
    /\ (\A i \in 1..4 : Conditions(req)[i][1]) => raised = FadeExceedsDuration
    /\ nodes = <<>> /\ probeCount = 0 /\ engineRuns = 0

\* A fade as long as the segment, with a bad crf as well, is rejected for the
\* fade.
C2_Witness ==
  /\ pc = "raised"
  /\ req.fade_duration = req.duration /\ req.duration > 0
  /\ req.crf = 52
  /\ raised = FadeExceedsDuration
  /\ nodes = <<>>

\* C3 as stated: on Windows or Linux with use_gpu, once the probe has failed in
\* any way, h264_qsv is chosen, no error leaves encoder selection and the run
\* goes on to the media engine.
C3_AsStated ==
  (req.use_gpu /\ system \in {"Windows", "Linux"} /\ probeCount > 0
     /\ probeEnv # "returncode0") =>
    /\ HasCodec("h264_qsv")
    /\ EncoderLeft
    /\ pc \in {"done", "exit1"} => engineRuns = 1

\* C4 as stated: on Windows or Linux with use_gpu, the probe has run exactly
\* once when encoder selection is over, and the codec is h264_nvenc exactly
\* when the probe returned status 0 and h264_qsv otherwise.
C4_AsStated ==
  (req.use_gpu /\ system \in {"Windows", "Linux"} /\ EncoderLeft) =>
    /\ probeCount = 1
    /\ HasCodec("h264_nvenc") <=> probeEnv = "returncode0"
    /\ probeEnv # "returncode0" => HasCodec("h264_qsv")

\* C5: on macOS with use_gpu the probe is never run, and once encoder
\* selection is over the codec is h264_videotoolbox, whatever nvidia-smi
\* would have done.
C5_DarwinVideoToolbox ==
  (req.use_gpu /\ system = "Darwin") =>
    /\ probeCount = 0
    /\ EncoderLeft => HasCodec("h264_videotoolbox")

\* macOS run to the end on a host whose nvidia-smi would have reported a GPU.
C5_Witness ==
  /\ req.use_gpu /\ system = "Darwin" /\ probeEnv = "returncode0"
  /\ pc = "done"
  /\ HasCodec("h264_videotoolbox")

\* C6: without use_gpu the probe is never run, and once encoder selection is
\* over the codec is libx264, on every system and for every probe outcome.
C6_CpuLibx264 ==
  ~req.use_gpu =>
    /\ probeCount = 0
    /\ EncoderLeft => HasCodec("libx264")

\* A run without use_gpu on Linux with a working nvidia-smi.
C6_Witness ==
  /\ ~req.use_gpu /\ system = "Linux" /\ probeEnv = "returncode0"
  /\ pc = "done"
  /\ HasCodec("libx264")

\* C7 as stated: with use_gpu on an unknown system there is no probe and the
\* codec is libx264 with a warning, and every run that reaches encoder
\* selection leaves it with one of the four codecs.
C7_AsStated ==
  /\ (req.use_gpu /\ system \notin {"Darwin", "Windows", "Linux"}) =>
       /\ probeCount = 0
       /\ EncoderLeft =>
            /\ HasCodec("libx264")
            /\ "Warning: Could not determine a suitable GPU encoder, falling back to CPU."
                 \in log
  /\ EncoderLeft =>
       \E c \in {"libx264", "h264_videotoolbox", "h264_nvenc", "h264_qsv"} : HasCodec(c)

\* C8: the video join is an xfade over <<forward, reversed>> with offset
\* duration - fade_duration and duration fade_duration exactly when
\* fade_duration > 0, a concat of forward then reversed exactly when
\* fade_duration = 0, and never both.
C8_JoinPolicy ==
  VideoBuilt =>
    LET xf == Ids("xfade", "v")
        cc == Ids("concat", "v")
        JoinsBranches(i) ==
          /\ Len(nodes[i].inputs) = 2
          /\ nodes[nodes[i].inputs[1]].kind = "input"
          /\ nodes[nodes[i].inputs[2]].kind = "reverse"
          /\ nodes[nodes[i].inputs[2]].inputs = <<nodes[i].inputs[1]>>
    IN /\ Cardinality(xf) + Cardinality(cc) = 1
       /\ (xf # {}) <=> req.fade_duration > 0
       /\ (cc # {}) <=> req.fade_duration = 0
       /\ \A i \in xf : /\ JoinsBranches(i)
                        /\ nodes[i].args.offset = req.duration - req.fade_duration
                        /\ nodes[i].args.duration = req.fade_duration
       /\ \A i \in cc : JoinsBranches(i)

\* A crossfaded plan: duration 3, fade 1, offset 2.
C8_Witness ==
  /\ pc = "done"
  /\ req.duration = 3 /\ req.fade_duration = 1
  /\ \E i \in Ids("xfade", "v") : nodes[i].args.offset = 2

\* C9: the video chain holds exactly one setpts node, whose factor times speed
\* is 1, which is the last video node and the video output, and whose single
\* input is the join node.
C9_SetptsLast ==
  VideoBuilt =>
    /\ Cardinality(Ids("setpts", "v")) = 1
    /\ \A i \in Ids("setpts", "v") :
         /\ nodes[i].args.factor.num * req.speed.num
              = nodes[i].args.factor.den * req.speed.den
         /\ \A j \in StreamIds("v") : j <= i
         /\ final_video = i
         /\ Len(output_args) >= 1 => output_args[1] = i
         /\ Len(nodes[i].inputs) = 1
         /\ nodes[nodes[i].inputs[1]].kind \in {"concat", "xfade"}
         /\ nodes[nodes[i].inputs[1]].stream = "v"

\* speed 2 gives the factor 1/2 on the final video node.
C9_Witness ==
  /\ pc = "done"
  /\ req.speed = [num |-> 2, den |-> 1]
  /\ nodes[final_video].kind = "setpts"
  /\ nodes[final_video].args.factor = [num |-> 1, den |-> 2]

====
